---- MODULE Spec2Model ----
(***************************************************************************)
(* A model of questplus/qp.py: the QuestPlus staircase object, its         *)
(* constructor, update(), next_stim and param_estimate.                    *)
(*                                                                         *)
(* Array cells hold IEEE-754 doubles in the source.  The model keeps the   *)
(* special values (NaN, -inf, +inf) and their arithmetic, and represents   *)
(* every finite value as an exact fraction n/d in lowest terms, so         *)
(* rounding is abstracted away while 0/0, log(0) and 0 * -inf behave as in *)
(* numpy.                                                                  *)
(***************************************************************************)
EXTENDS Integers, Sequences, FiniteSets, TLC

\* ------------------------------------------------------------------ bounds

\* Number of update() calls explored in one session.
MaxTrials == 2

\* Grid sizes of the configured axes.
NumIntensity == 2
NumFrequency == 2
NumThreshold == 2

\* ------------------------------------------------------------------ floats

Abs(x) == IF x < 0 THEN -x ELSE x

RECURSIVE GCD(_, _)
GCD(a, b) == IF b = 0 THEN a ELSE GCD(b, a % b)

\* A finite double, as the fraction n/d in lowest terms with d > 0.
Fin(n, d) ==
    LET s == IF d < 0 THEN -1 ELSE 1
        g == GCD(Abs(n), Abs(d))
    IN  [k |-> "fin", n |-> (s * n) \div g, d |-> (s * d) \div g]

NaN == [k |-> "nan", n |-> 0, d |-> 1]
PosInf == [k |-> "inf", n |-> 1, d |-> 1]
NegInf == [k |-> "inf", n |-> -1, d |-> 1]
Zero == Fin(0, 1)
One == Fin(1, 1)

IsNaN(a) == a.k = "nan"
IsFin(a) == a.k = "fin"
Sign(a) == IF a.n > 0 THEN 1 ELSE IF a.n < 0 THEN -1 ELSE 0
InfOf(s) == IF s > 0 THEN PosInf ELSE NegInf

\* a * b on doubles: NaN is absorbing and 0 * inf is NaN.
FMul(a, b) ==
    IF IsNaN(a) \/ IsNaN(b) THEN NaN
    ELSE IF IsFin(a) /\ IsFin(b) THEN Fin(a.n * b.n, a.d * b.d)
    ELSE IF Sign(a) * Sign(b) = 0 THEN NaN
    ELSE InfOf(Sign(a) * Sign(b))

\* a / b on doubles: 0/0 and inf/inf are NaN, x/0 is a signed infinity.
FDiv(a, b) ==
    IF IsNaN(a) \/ IsNaN(b) THEN NaN
    ELSE IF IsFin(a) /\ IsFin(b) THEN
        IF b.n # 0 THEN Fin(a.n * b.d, a.d * b.n)
        ELSE IF a.n = 0 THEN NaN ELSE InfOf(Sign(a))
    ELSE IF IsFin(a) THEN Zero
    ELSE IF IsFin(b) THEN InfOf(Sign(a) * (IF Sign(b) < 0 THEN -1 ELSE 1))
    ELSE NaN

\* a + b on doubles.
FAdd(a, b) ==
    IF IsNaN(a) \/ IsNaN(b) THEN NaN
    ELSE IF IsFin(a) /\ IsFin(b) THEN Fin(a.n * b.d + b.n * a.d, a.d * b.d)
    ELSE IF IsFin(a) THEN b
    ELSE IF IsFin(b) THEN a
    ELSE IF Sign(a) = Sign(b) THEN a ELSE NaN

\* -a on doubles.
FNeg(a) == IF IsNaN(a) THEN NaN ELSE [a EXCEPT !.n = -a.n]

\* 1 - a on doubles.
FCompl(a) == FAdd(One, FNeg(a))

\* a < b on doubles that are not NaN.
FLess(a, b) ==
    IF IsFin(a) /\ IsFin(b) THEN a.n * b.d < b.n * a.d
    ELSE IF IsFin(a) THEN Sign(b) > 0
    ELSE IF IsFin(b) THEN Sign(a) < 0
    ELSE Sign(a) < Sign(b)

\* ------------------------------------------------------------------ np.log

\* The natural logarithm, in thousandths, of the primes below 60.
LnPrime ==
    2 :> 693 @@ 3 :> 1099 @@ 5 :> 1609 @@ 7 :> 1946 @@ 11 :> 2398 @@
    13 :> 2565 @@ 17 :> 2833 @@ 19 :> 2944 @@ 23 :> 3135 @@ 29 :> 3367 @@
    31 :> 3434 @@ 37 :> 3611 @@ 41 :> 3714 @@ 43 :> 3761 @@ 47 :> 3850 @@
    53 :> 3970 @@ 59 :> 4078

RECURSIVE LeastFactor(_, _)
LeastFactor(n, f) ==
    IF f * f > n THEN n
    ELSE IF n % f = 0 THEN f ELSE LeastFactor(n, f + 1)

\* ln(n) in thousandths for an integer n >= 1; additive over the prime
\* factors of n.  A prime p outside the table is placed midway between its
\* even neighbours, which is ln(p) up to 1/(2 p^2).
RECURSIVE LnInt(_)
LnInt(n) ==
    IF n = 1 THEN 0
    ELSE LET p == LeastFactor(n, 2)
         IN  IF p < n THEN LnInt(p) + LnInt(n \div p)
             ELSE IF p \in DOMAIN LnPrime THEN LnPrime[p]
             ELSE (LnInt(p - 1) + LnInt(p + 1)) \div 2

\* np.log on a double: log(0) = -inf, log of a negative number or NaN is NaN.
FLog(a) ==
    IF IsNaN(a) THEN NaN
    ELSE IF IsFin(a) THEN
        IF a.n < 0 THEN NaN
        ELSE IF a.n = 0 THEN NegInf
        ELSE Fin(LnInt(a.n) - LnInt(a.d), 1000)
    ELSE IF Sign(a) > 0 THEN PosInf ELSE NaN

\* ------------------------------------------------------------------ domains

\* A named axis with its ordered grid values 0, 1, ..., n-1.
Axis(name, n) == [name |-> name, vals |-> [i \in 1..n |-> i - 1]]

\* The configurations explored: stim_domain, param_domain and
\* outcome_domain as passed to the constructor (dicts keep insertion order).
StimDomains ==
    { <<Axis("intensity", NumIntensity)>>,
      <<Axis("intensity", NumIntensity), Axis("frequency", NumFrequency)>> }

ParamDomains == { <<Axis("threshold", NumThreshold)>> }

OutcomeDomain == <<[name |-> "response", vals |-> <<"correct", "incorrect">>]>>

Names(dom) == {dom[k].name : k \in 1..Len(dom)}

AxisOf(dom, name) == CHOOSE k \in 1..Len(dom) : dom[k].name = name

\* The grid cells of a domain, each a tuple of 1-based indices.
RECURSIVE CellsUpTo(_, _)
CellsUpTo(dom, k) ==
    IF k = 0 THEN {<<>>}
    ELSE {Append(c, i) : c \in CellsUpTo(dom, k - 1), i \in 1..Len(dom[k].vals)}

Cells(dom) == CellsUpTo(dom, Len(dom))

\* The row-major (C order) flat index of a cell, 0-based, as numpy's
\* argmin/argmax number the cells of an array.
RECURSIVE FlatIndex(_, _, _)
FlatIndex(dom, c, k) ==
    IF k = 0 THEN 0
    ELSE FlatIndex(dom, c, k - 1) * Len(dom[k].vals) + (c[k] - 1)

\* np.unravel_index(flat, shape): the cell with the given flat index.
UnravelIndex(dom, flat) ==
    CHOOSE c \in Cells(dom) : FlatIndex(dom, c, Len(dom)) = flat

\* The coordinates of a cell: axis name -> grid value.
Coords(dom, c) ==
    [nm \in Names(dom) |-> dom[AxisOf(dom, nm)].vals[c[AxisOf(dom, nm)]]]

RECURSIVE SumVals(_, _, _)
SumVals(dom, c, k) ==
    IF k = 0 THEN 0 ELSE SumVals(dom, c, k - 1) + dom[k].vals[c[k]]

\* ------------------------------------------------------------------ sums

\* An array given cell by cell, as the array with all its cells computed
\* (the same function; TLC then evaluates each cell once).
Array(f) == CHOOSE g \in {f} : g = f

\* ndarray.sum() over a set of cells: a NaN cell makes the sum NaN.
RECURSIVE NdSum(_, _)
NdSum(f, S) ==
    IF S = {} THEN Zero
    ELSE LET c == CHOOSE x \in S : TRUE IN FAdd(f[c], NdSum(f, S \ {c}))

\* DataArray.sum(skipna=False): NaN cells are not skipped.
SumKeepNa(f, S) == NdSum(f, S)

\* xr.DataArray.sum() over a set of cells with the default skipna=True for
\* floating-point data: NaN cells count as 0, an all-NaN sum is 0.
RECURSIVE SumSkipNa(_, _)
SumSkipNa(f, S) ==
    IF S = {} THEN Zero
    ELSE LET c == CHOOSE x \in S : TRUE
             v == IF IsNaN(f[c]) THEN Zero ELSE f[c]
         IN  FAdd(v, SumSkipNa(f, S \ {c}))

\* ------------------------------------------------------------------ provider

\* The probability levels a psychometric function returns in the model.
ProbLevels == {Zero, Fin(1, 2), One}

\* The psychometric functions explored: the probability of the first
\* outcome label depends on how the stimulus strength (the sum of the
\* stimulus coordinates) compares with the sum of the parameter coordinates.
\* The function is non-decreasing in the stimulus strength, or it is the
\* matching function: 1 where the two agree and 0 elsewhere.
Providers ==
    {f \in [lt : ProbLevels, eq : ProbLevels, gt : ProbLevels] :
        \/ ~FLess(f.eq, f.lt) /\ ~FLess(f.gt, f.eq)
        \/ f = [lt |-> Zero, eq |-> One, gt |-> Zero]}

psychometric_function(f, sdom, pdom, s, p) ==
    LET x == SumVals(sdom, s, Len(sdom))
        t == SumVals(pdom, p, Len(pdom))
    IN  IF x < t THEN f.lt ELSE IF x = t THEN f.eq ELSE f.gt

\* ------------------------------------------------------------------ state

VARIABLES
    stim_domain,              \* self.stim_domain
    param_domain,             \* self.param_domain
    outcome_domain,           \* self.outcome_domain
    stim_selection,           \* self.stim_selection
    stim_selection_options,   \* self.stim_selection_options
    param_estimation_method,  \* self.param_estimation_method
    heap,                     \* the array buffers alive, by address
    prior,                    \* self.prior: address of its buffer
    posterior,                \* self.posterior: address of its buffer
    likelihoods,              \* self.likelihoods: address of its buffer
    resp_history,             \* self.resp_history
    stim_history,             \* self.stim_history
    entropy,                  \* self.entropy
    op,                       \* the call made last
    args,                     \* its arguments
    ret,                      \* the value it returned (a dict), if it returned
    raised,                   \* the exception it raised, or "none"
    trials,                   \* update() calls made so far
    applied,                  \* update() calls that returned normally
    prior0,                   \* the cells of self.prior when __init__ returned
    likelihoods0,             \* the cells of self.likelihoods at that time
    excluded,                 \* parameter cells some completed update() gave likelihood 0
    offgrid,                  \* some update() call named a key or value outside the grids
    before,                   \* posterior and histories when the last call was made
    seen,                     \* what next_stim returned first since the last update()
    stim_calls                \* next_stim calls since the last update(), up to 2

config == <<stim_domain, param_domain, outcome_domain, stim_selection,
            stim_selection_options, param_estimation_method>>
arrays == <<heap, prior, posterior, likelihoods>>
history == <<resp_history, stim_history>>
ghost == <<trials, applied, prior0, likelihoods0, excluded, offgrid>>
repeat == <<seen, stim_calls>>
vars == <<config, arrays, history, entropy, op, args, ret, raised, ghost,
          before, repeat>>

StimCells == Cells(stim_domain)
ParamCells == Cells(param_domain)
Outcomes == 1..Len(outcome_domain[1].vals)

\* The arrays the object's attributes refer to.
Prior == heap[prior]
Posterior == heap[posterior]
Likelihoods == heap[likelihoods]

\* What a caller can read of the belief state and the trial history.
Snapshot ==
    [posterior |-> Posterior, resp_history |-> resp_history,
     stim_history |-> stim_history]

\* ------------------------------------------------------------------ buffers

\* The address of a newly allocated buffer: one not in use.
Fresh(h) == CHOOSE a \in 1..(Cardinality(DOMAIN h) + 1) :
                /\ a \notin DOMAIN h
                /\ \A b \in 1..(a - 1) : b \in DOMAIN h

\* Writing an array into the buffer at an address.
Store(h, a, v) == [b \in DOMAIN h \cup {a} |-> IF b = a THEN v ELSE h[b]]

\* Buffers no attribute refers to are released.
Release(h, live) == [b \in DOMAIN h \cap live |-> h[b]]

\* y = x: no copy, the same buffer under a second name.
alias(h, a) == a

\* deepcopy(x): the copy lives in a buffer of its own.
deepcopy(h, a) == Fresh(h)

\* a *= b: the product is written into the left operand's buffer.
MulInPlace(h, a, b) == a

\* a * b on DataArrays: the product is written to a new buffer, never into
\* one of the operands.
MulResult(h, a, b) == Fresh(h)

\* ------------------------------------------------------------------ __init__

\* _gen_prior with prior=None: ones over the parameter grid, normalised.
gen_prior(pdom) ==
    LET ones == [p \in Cells(pdom) |-> One]
        total == NdSum(ones, Cells(pdom))
    IN  [p \in Cells(pdom) |-> FDiv(ones[p], total)]

\* _gen_likelihoods: prop_correct at the first outcome label and
\* 1 - prop_correct at the second.
gen_likelihoods(f, sdom, pdom) ==
    [x \in Cells(sdom) \X Cells(pdom) \X {1, 2} |->
        LET prop_correct == psychometric_function(f, sdom, pdom, x[1], x[2])
        IN  IF x[3] = 1 THEN prop_correct ELSE FCompl(prop_correct)]

\* The method arguments explored: stim_selection_method,
\* stim_selection_options (a dict, written as a sequence of key-value pairs;
\* <<>> stands for None) and param_estimation_method.
MethodConfigs ==
    { <<"min_entropy", <<>>, "mode">>,
      <<"min_n_entropy", << <<"n", 2>> >>, "mean">>,
      <<"max_entropy", <<>>, "median">> }

NoDict == [nm \in {} |-> 0]

Init ==
    /\ stim_domain \in StimDomains
    /\ param_domain \in ParamDomains
    /\ outcome_domain = OutcomeDomain
    /\ \E mc \in MethodConfigs :
          /\ stim_selection = mc[1]
          /\ stim_selection_options = mc[2]
          /\ param_estimation_method = mc[3]
    /\ \E f \in Providers :
          LET h0 == [b \in {} |-> 0]
              pr == Fresh(h0)
              h1 == Store(h0, pr, gen_prior(param_domain))
              po == deepcopy(h1, pr)
              h2 == Store(h1, po, h1[pr])
              li == Fresh(h2)
              h3 == Store(h2, li,
                          gen_likelihoods(f, stim_domain, param_domain))
          IN  /\ prior = pr
              /\ posterior = po
              /\ likelihoods = li
              /\ heap = h3
              /\ prior0 = h3[pr]
              /\ likelihoods0 = h3[li]
    /\ resp_history = <<>>
    /\ stim_history = [nm \in Names(stim_domain) |-> <<>>]
    /\ entropy = NaN
    /\ op = "__init__"
    /\ args = <<>>
    /\ ret = NoDict
    /\ raised = "none"
    /\ trials = 0
    /\ applied = 0
    /\ excluded = {}
    /\ offgrid = FALSE
    /\ before = Snapshot
    /\ seen = NoDict
    /\ stim_calls = 0

\* ------------------------------------------------------------------ update

\* The keyword arguments of the calls explored.  A dict is written as the
\* sequence of its key-value pairs in insertion order.
Dict(dom, c) ==
    Array([k \in 1..Len(dom) |-> <<dom[k].name, dom[k].vals[c[k]]>>])

\* One value per stimulus axis and an outcome label, all on the grids.
GridStims == {Dict(stim_domain, c) : c \in StimCells}
GridOutcomes == {Dict(outcome_domain, <<o>>) : o \in Outcomes}

FirstStim == Dict(stim_domain, [k \in 1..Len(stim_domain) |-> 1])
ParamKey == <<param_domain[1].name, param_domain[1].vals[1]>>

\* Calls that name a value off the grid, an axis the engine does not know,
\* or a parameter axis after the stimulus axes.
OffGridCalls ==
    { <<[FirstStim EXCEPT ![1] = <<FirstStim[1][1], Len(stim_domain[1].vals)>>],
        Dict(outcome_domain, <<1>>)>> }

ExtraKeyCalls ==
    { <<Append(FirstStim, <<"contrast", 0>>), Dict(outcome_domain, <<1>>)>>,
      <<Append(FirstStim, ParamKey), Dict(outcome_domain, <<1>>)>> }

CallArgs == (GridStims \X GridOutcomes) \cup OffGridCalls \cup ExtraKeyCalls

DimNames == Names(stim_domain) \cup Names(param_domain) \cup Names(outcome_domain)

DimAxis(nm) ==
    IF nm \in Names(stim_domain) THEN stim_domain[AxisOf(stim_domain, nm)]
    ELSE IF nm \in Names(param_domain) THEN param_domain[AxisOf(param_domain, nm)]
    ELSE outcome_domain[AxisOf(outcome_domain, nm)]

OnGrid(axis, v) == \E i \in 1..Len(axis.vals) : axis.vals[i] = v
IndexOf(axis, v) == CHOOSE i \in 1..Len(axis.vals) : axis.vals[i] = v

\* self.likelihoods.sel(**kw): the exception it raises, or "none".  A name
\* that is no dimension of the array is rejected first, then a value that is
\* not in the dimension's index.
SelError(kw) ==
    IF \E i \in 1..Len(kw) : kw[i][1] \notin DimNames THEN "ValueError"
    ELSE IF \E i \in 1..Len(kw) : ~OnGrid(DimAxis(kw[i][1]), kw[i][2])
         THEN "KeyError"
    ELSE "none"

\* The index sel() resolves a dimension to, or 0 when kw does not name it.
Selected(kw, nm) ==
    IF \E i \in 1..Len(kw) : kw[i][1] = nm
    THEN LET i == CHOOSE j \in 1..Len(kw) : kw[j][1] = nm
         IN  IndexOf(DimAxis(nm), kw[i][2])
    ELSE 0

\* self.likelihoods.sel(**stim, **outcome), broadcast against the posterior:
\* the factor that multiplies each cell p of the posterior.  A parameter axis
\* named in kw is fixed at the selected index, the others follow p.
SelLikelihood(kw) ==
    LET lik == Likelihoods
        s == CHOOSE c \in StimCells :
                 \A k \in 1..Len(stim_domain) :
                     c[k] = Selected(kw, stim_domain[k].name)
        fixed == Array([k \in 1..Len(param_domain) |->
                           Selected(kw, param_domain[k].name)])
        q(p) == CHOOSE c \in ParamCells :
                    \A k \in 1..Len(param_domain) :
                        c[k] = IF fixed[k] # 0 THEN fixed[k] ELSE p[k]
        o == Selected(kw, outcome_domain[1].name)
    IN  Array([p \in ParamCells |-> lik[<<s, q(p), o>>]])

\* The loop over stim.items() that logs the stimulus: the history after the
\* pairs i.. have been handled, and the exception that stopped the loop.
RECURSIVE LogStim(_, _, _)
LogStim(hist, stim, i) ==
    IF i > Len(stim) THEN [hist |-> hist, raised |-> "none"]
    ELSE IF stim[i][1] \notin DOMAIN hist THEN [hist |-> hist, raised |-> "KeyError"]
    ELSE LogStim([hist EXCEPT ![stim[i][1]] = Append(@, stim[i][2])], stim, i + 1)

update(stim, outcome) ==
    LET P == ParamCells
        kw == stim \o outcome
        err == SelError(kw)
        likelihood == SelLikelihood(kw)
        product == Array([p \in P |-> FMul(Posterior[p], likelihood[p])])
        r == MulResult(heap, posterior, likelihoods)
        h1 == Store(heap, r, product)
        total == SumSkipNa(h1[r], P)
        h2 == Store(h1, r, Array([p \in P |-> FDiv(h1[r][p], total)]))
        logged == LogStim(stim_history, stim, 1)
    IN  /\ trials < MaxTrials
        /\ op' = "update"
        /\ args' = <<stim, outcome>>
        /\ ret' = NoDict
        /\ trials' = trials + 1
        /\ offgrid' = (offgrid \/ <<stim, outcome>> \notin GridStims \X GridOutcomes)
        /\ before' = Snapshot
        /\ seen' = NoDict
        /\ stim_calls' = 0
        /\ UNCHANGED <<config, entropy, prior, likelihoods, prior0, likelihoods0>>
        /\ IF err # "none"
           THEN /\ raised' = err
                /\ UNCHANGED <<heap, posterior, history, applied, excluded>>
           ELSE /\ posterior' = r
                /\ heap' = Release(h2, {prior, r, likelihoods})
                /\ stim_history' = logged.hist
                /\ raised' = logged.raised
                /\ IF logged.raised = "none"
                   THEN /\ resp_history' = Append(resp_history, outcome)
                        /\ applied' = applied + 1
                        /\ excluded' = excluded \cup
                              {p \in P : likelihood[p] = Zero}
                   ELSE UNCHANGED <<resp_history, applied, excluded>>

Update == \E a \in CallArgs : update(a[1], a[2])

\* ------------------------------------------------------------------ argmin, argmax

\* Whether a cell holds the least (greatest) of the values that are not NaN.
IsMin(f, S, c) == ~IsNaN(f[c]) /\ \A x \in S : IsNaN(f[x]) \/ ~FLess(f[x], f[c])
IsMax(f, S, c) == ~IsNaN(f[c]) /\ \A x \in S : IsNaN(f[x]) \/ ~FLess(f[c], f[x])

\* The flat index of the last cell that holds the least value.
argmin_last(f, dom) ==
    LET hits == {FlatIndex(dom, c, Len(dom)) : c \in {x \in Cells(dom) : IsMin(f, Cells(dom), x)}}
    IN  IF hits = {} THEN -1 ELSE CHOOSE i \in hits : \A j \in hits : i >= j

\* DataArray.argmin() / argmax() without dim: the flat index of the first
\* cell, in row-major order, that holds the least (greatest) value, NaN
\* cells skipped; -1 stands for the ValueError raised when all cells are NaN.
argmin(f, dom) ==
    LET hits == {FlatIndex(dom, c, Len(dom)) : c \in {x \in Cells(dom) : IsMin(f, Cells(dom), x)}}
    IN  IF hits = {} THEN -1 ELSE CHOOSE i \in hits : \A j \in hits : i <= j

argmax(f, dom) ==
    LET hits == {FlatIndex(dom, c, Len(dom)) : c \in {x \in Cells(dom) : IsMax(f, Cells(dom), x)}}
    IN  IF hits = {} THEN -1 ELSE CHOOSE i \in hits : \A j \in hits : i <= j

\* ------------------------------------------------------------------ next_stim

\* new_posterior = self.posterior * self.likelihoods, broadcast over the
\* stimulus and outcome axes.
Joint(post, lik) == Array([x \in DOMAIN lik |-> FMul(post[x[2]], lik[x])])

\* pk = new_posterior.sum(dim=self.param_domain.keys()): one cell per
\* stimulus cell and outcome.
MarginalPk(J, S, P, O) ==
    Array([y \in S \X O |-> SumSkipNa([p \in P |-> J[<<y[1], p, y[2]>>]], P)])

\* new_posterior /= pk
Conditional(J, pk) ==
    Array([x \in DOMAIN J |-> FDiv(J[x], pk[<<x[1], x[3]>>])])

\* H = -((new_posterior * np.log(new_posterior)).sum(dim=params))
EntropyH(C, S, P, O) ==
    Array([y \in S \X O |->
        FNeg(SumSkipNa([p \in P |-> FMul(C[<<y[1], p, y[2]>>],
                                         FLog(C[<<y[1], p, y[2]>>]))], P))])

\* EH = (pk * H).sum(dim=list(self.outcome_domain.keys()))
ExpectedEntropy(pk, H, S, O) ==
    Array([s \in S |-> SumSkipNa([o \in O |-> FMul(pk[<<s, o>>], H[<<s, o>>])], O)])

\* The expected entropies next_stim computes from a posterior and the
\* likelihood tensor.
EHOf(post, lik) ==
    LET S == StimCells
        P == ParamCells
        O == Outcomes
        J == Joint(post, lik)
        pk == MarginalPk(J, S, P, O)
    IN  ExpectedEntropy(pk, EntropyH(Conditional(J, pk), S, P, O), S, O)

EH == EHOf(Posterior, Likelihoods)

next_stim ==
    LET S == StimCells
        P == ParamCells
        O == Outcomes
        t == MulResult(heap, posterior, likelihoods)
        h1 == Store(heap, t, Joint(Posterior, Likelihoods))
        pk == MarginalPk(h1[t], S, P, O)
        h2 == Store(h1, t, Conditional(h1[t], pk))
        H == EntropyH(h2[t], S, P, O)
        eh == ExpectedEntropy(pk, H, S, O)
        index == UnravelIndex(stim_domain, argmin(eh, stim_domain))
    IN  /\ op' = "next_stim"
        /\ args' = <<>>
        /\ heap' = Release(h2, {prior, posterior, likelihoods})
        /\ before' = Snapshot
        /\ stim_calls' = IF stim_calls < 2 THEN stim_calls + 1 ELSE stim_calls
        /\ UNCHANGED <<config, prior, posterior, likelihoods, history, ghost>>
        /\ IF stim_selection = "min_entropy"
           THEN /\ ret' = Coords(stim_domain, index)
                /\ entropy' = eh[index]
                /\ raised' = "none"
           ELSE /\ ret' = NoDict
                /\ raised' = "ValueError"
                /\ UNCHANGED entropy
        /\ seen' = IF stim_calls = 0 THEN ret' ELSE seen

\* ------------------------------------------------------------------ param_estimate

\* self.posterior.sum(dim=params): the marginal over one parameter axis.
Marginal(post, k, i) ==
    SumSkipNa(post, {p \in ParamCells : p[k] = i})

\* (marginal * self.param_domain[param_name]).sum().item()
MeanEstimate(post, k) ==
    LET grid == 1..Len(param_domain[k].vals)
    IN  SumSkipNa([i \in grid |->
                      FMul(Marginal(post, k, i), Fin(param_domain[k].vals[i], 1))],
                  grid)

\* coords[param_name].item() at the cell np.unravel_index(argmax) names.
ModeEstimate(post, k) ==
    param_domain[k].vals[UnravelIndex(param_domain, argmax(post, param_domain))[k]]

param_estimate ==
    /\ op' = "param_estimate"
    /\ args' = <<>>
    /\ before' = Snapshot
    /\ UNCHANGED <<config, arrays, history, entropy, ghost, repeat>>
    /\ IF param_estimation_method = "mean"
       THEN /\ ret' = [nm \in Names(param_domain) |->
                         MeanEstimate(Posterior, AxisOf(param_domain, nm))]
            /\ raised' = "none"
       ELSE IF param_estimation_method = "mode"
       THEN IF argmax(Posterior, param_domain) = -1
            THEN /\ ret' = NoDict
                 /\ raised' = "ValueError"
            ELSE /\ ret' = [nm \in Names(param_domain) |->
                              ModeEstimate(Posterior, AxisOf(param_domain, nm))]
                 /\ raised' = "none"
       ELSE /\ ret' = NoDict
            /\ raised' = "ValueError"

NextStim == next_stim

ParamEstimate == param_estimate

Next == Update \/ NextStim \/ ParamEstimate

Spec == Init /\ [][Next]_vars

\* ------------------------------------------------------------------ properties

\* A probability distribution over the parameter grid.
Normalised(post) ==
    /\ \A p \in ParamCells : IsFin(post[p]) /\ post[p].n >= 0
    /\ NdSum(post, ParamCells) = One

\* The binary-grid scenario: intensity = [0, 1], threshold = [0, 1], uniform
\* prior, P(correct) = 1 where intensity = threshold and 0 elsewhere.
BinaryScenario ==
    /\ stim_domain = <<[name |-> "intensity", vals |-> <<0, 1>>]>>
    /\ param_domain = <<[name |-> "threshold", vals |-> <<0, 1>>]>>
    /\ likelihoods0 = gen_likelihoods([lt |-> Zero, eq |-> One, gt |-> Zero],
                                      stim_domain, param_domain)

Flat(dom, c) == FlatIndex(dom, c, Len(dom))

\* C1: as long as every update() named values on the grids, the posterior
\* is non-negative and sums to 1, after construction and after every
\* update().
C1_PosteriorNormalised == ~offgrid => Normalised(Posterior)

\* C2: a parameter cell that a completed update() gave likelihood 0 has
\* posterior mass exactly 0 from then on, whatever on-grid observations
\* follow.
C2_ExcludedStaysZero == ~offgrid => \A p \in excluded : Posterior[p] = Zero

\* C3: an update() call that raises leaves the posterior and every history
\* list as they were when it was called.
C3_UpdateAllOrNothing == (op = "update" /\ raised # "none") => Snapshot = before

\* C4: next_stim leaves the posterior and the trial history unchanged, and
\* every call since the last update() returns what the first of them
\* returned.
C4_NextStimIdempotent == op = "next_stim" => (Snapshot = before /\ ret = seen)

C4_Witness ==
    /\ op = "next_stim" /\ raised = "none" /\ stim_calls = 2
    /\ applied >= 1 /\ Posterior # prior0

\* C5: the history lists grow in lockstep with update(): a completed
\* update() appends its stimulus values and its outcome, one entry per list,
\* next_stim and param_estimate append nothing, and every list is as long as
\* the number of completed updates.
C5_HistoryLockstep ==
    /\ \A nm \in Names(stim_domain) : Len(stim_history[nm]) = applied
    /\ Len(resp_history) = applied
    /\ (op = "update" /\ raised = "none") =>
          /\ resp_history = Append(before.resp_history, args[2])
          /\ \A i \in 1..Len(args[1]) :
                stim_history[args[1][i][1]] =
                    Append(before.stim_history[args[1][i][1]], args[1][i][2])
    /\ op \in {"next_stim", "param_estimate"} =>
          /\ resp_history = before.resp_history
          /\ stim_history = before.stim_history

\* C6: with min_entropy, next_stim returns the coordinates of the stimulus
\* cell of least expected entropy, the first such cell in grid order; in the
\* binary scenario the new engine returns intensity 0.
C6_MinEntropyFirst ==
    (op = "next_stim" /\ stim_selection = "min_entropy") =>
        /\ raised = "none"
        /\ LET eh == EH
           IN  \E c \in StimCells :
                  /\ ret = Coords(stim_domain, c)
                  /\ \A x \in StimCells : ~FLess(eh[x], eh[c])
                  /\ \A x \in StimCells :
                        Flat(stim_domain, x) < Flat(stim_domain, c)
                            => FLess(eh[c], eh[x])
        /\ (BinaryScenario /\ trials = 0) => ret = ("intensity" :> 0)

C6_Witness ==
    /\ op = "next_stim" /\ raised = "none" /\ applied >= 1
    /\ LET eh == EH
       IN  \E c \in StimCells :
              /\ ret = Coords(stim_domain, c)
              /\ \E x \in StimCells : x # c /\ eh[x] = eh[c]
              /\ \E x \in StimCells : FLess(eh[c], eh[x])

\* C7: with mode, param_estimate returns the coordinates of the first cell
\* of greatest posterior probability, values on the parameter grid; in the
\* binary scenario, after update(intensity 0, correct), the posterior is 1 on
\* threshold 0 and 0 on threshold 1 and the estimate is threshold 0.
C7_ModeOnGrid ==
    (op = "param_estimate" /\ param_estimation_method = "mode" /\ ~offgrid) =>
        /\ raised = "none"
        /\ \E c \in ParamCells :
              /\ ret = Coords(param_domain, c)
              /\ \A x \in ParamCells : ~FLess(Posterior[c], Posterior[x])
              /\ \A x \in ParamCells :
                    Flat(param_domain, x) < Flat(param_domain, c)
                        => FLess(Posterior[x], Posterior[c])
        /\ ( /\ BinaryScenario
             /\ stim_history = [nm \in {"intensity"} |-> <<0>>]
             /\ resp_history = << << <<"response", "correct">> >> >> )
           => /\ Posterior[<<1>>] = One
              /\ Posterior[<<2>>] = Zero
              /\ ret = ("threshold" :> 0)

\* C8: next_stim raises exactly when the selection method is neither
\* min_entropy nor min_n_entropy; otherwise it returns a stimulus of the
\* grid.
C8_SelectionMethods ==
    op = "next_stim" =>
        /\ raised # "none" <=> stim_selection \notin {"min_entropy", "min_n_entropy"}
        /\ raised = "none" => \E c \in StimCells : ret = Coords(stim_domain, c)

\* C9: the prior and the likelihood tensor keep the cells they had when the
\* constructor returned, and the posterior never shares the prior's buffer.
C9_OnlyPosteriorMutated ==
    /\ Prior = prior0
    /\ Likelihoods = likelihoods0
    /\ posterior # prior

C9_Witness ==
    /\ applied = MaxTrials /\ Posterior # prior0
    /\ op = "next_stim" /\ raised = "none" /\ stim_calls = 2

\* The expected entropy of a stimulus with the zero cells left out by an
\* explicit guard: outcomes of marginal probability 0 and parameter cells of
\* conditional probability 0 add nothing.
GuardedEH(J, P, s) ==
    LET pk == Array([o \in Outcomes |-> NdSum([p \in P |-> J[<<s, p, o>>]], P)])
        term(p, o) ==
            IF J[<<s, p, o>>] = Zero THEN Zero
            ELSE LET c == FDiv(J[<<s, p, o>>], pk[o]) IN FMul(c, FLog(c))
        H(o) == FNeg(NdSum([p \in P |-> term(p, o)], P))
    IN  NdSum([o \in Outcomes |-> IF pk[o] = Zero THEN Zero ELSE FMul(pk[o], H(o))],
              Outcomes)

\* C10: with a normalised posterior, the expected entropy of every stimulus
\* is a number, the one obtained when zero-probability cells add 0, and
\* next_stim (min_entropy) returns a stimulus.
C10_ZeroCellsAddZero ==
    Normalised(Posterior) =>
        /\ LET J == Joint(Posterior, Likelihoods)
               P == ParamCells
               eh == EH
           IN  \A s \in StimCells : IsFin(eh[s]) /\ eh[s] = GuardedEH(J, P, s)
        /\ (op = "next_stim" /\ stim_selection = "min_entropy") =>
              /\ raised = "none"
              /\ \E c \in StimCells : ret = Coords(stim_domain, c)

C10_Witness ==
    /\ Normalised(Posterior)
    /\ op = "next_stim" /\ raised = "none"
    /\ LET J == Joint(Posterior, Likelihoods)
           pk == MarginalPk(J, StimCells, ParamCells, Outcomes)
       IN  /\ \E y \in DOMAIN pk : pk[y] = Zero
           /\ \E x \in DOMAIN J : pk[<<x[1], x[3]>>] # Zero /\ J[x] = Zero

====
